---- MODULE Spec2Model ----
(***************************************************************************)
(* Library registry, link-order resolver and artifact locator of           *)
(* bin/ice/library.py.                                                     *)
(*                                                                         *)
(* Names of libraries, headers and symbols are strings.  Python compares   *)
(* strings by code point, so every name that takes part in a comparison    *)
(* has its code points in NameChars.  File names and paths are sequences   *)
(* of one-character strings, so that slicing, rfind and float() can be     *)
(* computed on them.                                                       *)
(***************************************************************************)
EXTENDS Integers, Sequences, FiniteSets, TLC

VARIABLES
  isOSX,                 \* sys.platform.startswith('darwin'); os.uname()[0] == 'Darwin'
  isARM,                 \* machine() is aarch64 or arm*
  loadPos,               \* rows of the catalogue the module-level loop has registered
  libraryTable,          \* canonical name -> Library
  headerToLibraryTable,  \* header -> list of canonical names
  symbolToLibraryTable,  \* symbol -> list of canonical names
  exitStatus,            \* <<>> while running, <<code>> after sys.exit(code)
  _libOrder,             \* the module global of that name
  liblist,               \* the list object handed to sortLibraries
  pairs,                 \* _makeLibOrder's local at line 222, last call
  order,                 \* _makeLibOrder's return value, last call
  files,                 \* the file system: a set of <<directory, file name>>
  ret,                   \* findLibrary's return value, last call
  call                   \* the last operation invoked, with its arguments

vars == <<isOSX, isARM, loadPos, libraryTable, headerToLibraryTable,
          symbolToLibraryTable, exitStatus, _libOrder, liblist, pairs, order,
          files, ret, call>>

registry == <<libraryTable, headerToLibraryTable, symbolToLibraryTable>>

None == <<>>

STATIC == 1
DYNAMIC == 2
FRAMEWORK == 3

(***************************************************************************)
(* Bounds of the model.                                                    *)
(***************************************************************************)
MaxLen == 3
MaxFiles == 2

----------------------------------------------------------------------------
(* Strings *)

NameChars ==
    "ANN"              :> <<65, 78, 78>> @@
    "AppleGL"          :> <<65, 112, 112, 108, 101, 71, 76>> @@
    "Box2D"            :> <<66, 111, 120, 50, 68>> @@
    "Carbon"           :> <<67, 97, 114, 98, 111, 110>> @@
    "Cocoa"            :> <<67, 111, 99, 111, 97>> @@
    "CoreVideo"        :> <<67, 111, 114, 101, 86, 105, 100, 101, 111>> @@
    "FFMPEG-codec"     :> <<70, 70, 77, 80, 69, 71, 45, 99, 111, 100, 101, 99>> @@
    "FFMPEG-filter"    :> <<70, 70, 77, 80, 69, 71, 45, 102, 105, 108, 116, 101, 114>> @@
    "FFMPEG-format"    :> <<70, 70, 77, 80, 69, 71, 45, 102, 111, 114, 109, 97, 116>> @@
    "FFMPEG-resample"  :> <<70, 70, 77, 80, 69, 71, 45, 114, 101, 115, 97, 109, 112, 108, 101>> @@
    "FFMPEG-swscale"   :> <<70, 70, 77, 80, 69, 71, 45, 115, 119, 115, 99, 97, 108, 101>> @@
    "FFMPEG-util"      :> <<70, 70, 77, 80, 69, 71, 45, 117, 116, 105, 108>> @@
    "FMOD"             :> <<70, 77, 79, 68>> @@
    "G3D-app"          :> <<71, 51, 68, 45, 97, 112, 112>> @@
    "G3D-base"         :> <<71, 51, 68, 45, 98, 97, 115, 101>> @@
    "G3D-gfx"          :> <<71, 51, 68, 45, 103, 102, 120>> @@
    "GLU"              :> <<71, 76, 85>> @@
    "IOKit"            :> <<73, 79, 75, 105, 116>> @@
    "OpenCV"           :> <<79, 112, 101, 110, 67, 86>> @@
    "OpenCV-Aux"       :> <<79, 112, 101, 110, 67, 86, 45, 65, 117, 120>> @@
    "OpenCV-Core"      :> <<79, 112, 101, 110, 67, 86, 45, 67, 111, 114, 101>> @@
    "OpenGL"           :> <<79, 112, 101, 110, 71, 76>> @@
    "QT"               :> <<81, 84>> @@
    "QuartzCore"       :> <<81, 117, 97, 114, 116, 122, 67, 111, 114, 101>> @@
    "SDL"              :> <<83, 68, 76>> @@
    "Webkit"           :> <<87, 101, 98, 107, 105, 116>> @@
    "X11"              :> <<88, 49, 49>> @@
    "Xcursor"          :> <<88, 99, 117, 114, 115, 111, 114>> @@
    "Xi"               :> <<88, 105>> @@
    "Xinerama"         :> <<88, 105, 110, 101, 114, 97, 109, 97>> @@
    "Xrandr"           :> <<88, 114, 97, 110, 100, 114>> @@
    "Xxf86vm"          :> <<88, 120, 102, 56, 54, 118, 109>> @@
    "assimp"           :> <<97, 115, 115, 105, 109, 112>> @@
    "civetweb"         :> <<99, 105, 118, 101, 116, 119, 101, 98>> @@
    "curses"           :> <<99, 117, 114, 115, 101, 115>> @@
    "dl"               :> <<100, 108>> @@
    "embree"           :> <<101, 109, 98, 114, 101, 101>> @@
    "enet"             :> <<101, 110, 101, 116>> @@
    "freeimage"        :> <<102, 114, 101, 101, 105, 109, 97, 103, 101>> @@
    "glew"             :> <<103, 108, 101, 119>> @@
    "glfw"             :> <<103, 108, 102, 119>> @@
    "glut"             :> <<103, 108, 117, 116>> @@
    "irrKlang"         :> <<105, 114, 114, 75, 108, 97, 110, 103>> @@
    "math"             :> <<109, 97, 116, 104>> @@
    "mongoose"         :> <<109, 111, 110, 103, 111, 111, 115, 101>> @@
    "nfd"              :> <<110, 102, 100>> @@
    "ply"              :> <<112, 108, 121>> @@
    "pthread"          :> <<112, 116, 104, 114, 101, 97, 100>> @@
    "python"           :> <<112, 121, 116, 104, 111, 110>> @@
    "qrencode"         :> <<113, 114, 101, 110, 99, 111, 100, 101>> @@
    "sqlite3"          :> <<115, 113, 108, 105, 116, 101, 51>> @@
    "tbb"              :> <<116, 98, 98>> @@
    "tbbmalloc"        :> <<116, 98, 98, 109, 97, 108, 108, 111, 99>> @@
    "zip"              :> <<122, 105, 112>> @@
    "zlib"             :> <<122, 108, 105, 98>>

RECURSIVE SeqLess(_, _)
SeqLess(a, b) ==
  IF b = <<>> THEN FALSE
  ELSE IF a = <<>> THEN TRUE
  ELSE IF a[1] # b[1] THEN a[1] < b[1]
  ELSE SeqLess(Tail(a), Tail(b))

\* x < y on Python strings
StrLess(x, y) == SeqLess(NameChars[x], NameChars[y])

Range(s) == {s[i] : i \in 1..Len(s)}

Min(S) == CHOOSE m \in S : \A n \in S : m <= n

----------------------------------------------------------------------------
(* The catalogue *)

\* Library.__init__ without the test of lines 63-65
LibraryKeepDeploy(name, type, headerList, symbolList, dependsOnList, deploy) ==
  [name |-> name, type |-> type, headerList |-> headerList,
   symbolList |-> symbolList, dependsOnList |-> dependsOnList,
   deploy |-> deploy]

\* Library.__init__
Library(name, type, headerList, symbolList, dependsOnList, deploy) ==
  [name |-> name, type |-> type, headerList |-> headerList,
   symbolList |-> symbolList, dependsOnList |-> dependsOnList,
   deploy |-> IF type = STATIC THEN FALSE ELSE deploy]

maybeG3DX11 == IF ~isOSX THEN <<"X11">> ELSE <<>>
maybeGLFWX11 ==
  IF ~isOSX THEN <<"X11", "Xrandr", "Xi", "Xxf86vm", "Xcursor", "Xinerama", "dl">>
  ELSE <<>>
maybeGLFWOSX == IF ~isOSX THEN <<>> ELSE <<"IOKit", "CoreVideo", "Cocoa", "AppleGL">>
maybeAppleGL == IF ~isOSX THEN <<>> ELSE <<"AppleGL">>
maybeFwk == IF ~isOSX THEN DYNAMIC ELSE FRAMEWORK
maybeFFMPEG ==
  <<"FFMPEG-util", "FFMPEG-codec", "FFMPEG-format", "FFMPEG-swscale", "FFMPEG-filter">>
maybeFMOD == IF ~isOSX THEN <<>> ELSE <<"FMOD">>
maybeEmbree == IF ~isARM THEN <<"embree">> ELSE <<>>
maybePython == IF ~isARM THEN <<"python">> ELSE <<>>

G3DAppDepend ==
  <<"G3D-base", "G3D-gfx", "OpenGL", "GLU", "glfw", "assimp", "glew", "nfd">>
    \o maybePython \o maybeFFMPEG \o maybeAppleGL \o maybeG3DX11 \o maybeFMOD
    \o maybeEmbree
glfwDepend == maybeGLFWX11 \o maybeGLFWOSX \o <<"pthread">>

Catalogue ==
  <<
    Library("python", DYNAMIC, <<"Python.h">>, <<>>, <<>>, TRUE),  \* line 143
    Library("SDL", maybeFwk, <<"SDL.h">>, <<"SDL_GetMouseState">>, <<"OpenGL", "Cocoa", "pthread">>, TRUE),  \* line 144
    Library("curses", DYNAMIC, <<"curses.h">>, <<>>, <<>>, FALSE),  \* line 145
    Library("zlib", DYNAMIC, <<"zlib.h">>, <<"compress2">>, <<>>, FALSE),  \* line 146
    Library("zip", STATIC, <<"zip.h">>, <<"zip_close">>, <<"zlib">>, FALSE),  \* line 147
    Library("glut", maybeFwk, <<"glut.h">>, <<>>, <<>>, FALSE),  \* line 148
    Library("OpenGL", maybeFwk, <<"gl.h">>, <<"glBegin", "glVertex3">>, <<>>, FALSE),  \* line 149
    Library("assimp", STATIC, <<"assimp/Importer.hpp">>, <<>>, <<>>, FALSE),  \* line 150
    Library("glfw", STATIC, <<"glfw3.h">>, <<"glfwCreateWindow", "_glfwCreateWindow">>, glfwDepend, TRUE),  \* line 151
    Library("glew", STATIC, <<"glew.h">>, <<"_glewGetExtension", "glewGetExtension">>, <<>>, TRUE),  \* line 152
    Library("nfd", STATIC, <<"nfd.h">>, <<"_NFD_OpenDialog">>, <<>>, TRUE),  \* line 153
    Library("enet", STATIC, <<"enet.h">>, <<"enet_host_create">>, <<>>, TRUE),  \* line 154
    Library("sqlite3", STATIC, <<"sqlite3.h">>, <<>>, <<>>, TRUE),  \* line 155
    Library("freeimage", STATIC, <<"FreeImagePlus.h", "FreeImage.h">>, <<>>, <<>>, TRUE),  \* line 156
    Library("GLU", maybeFwk, <<"glu.h">>, <<"gluBuild2DMipmaps">>, <<"OpenGL">>, FALSE),  \* line 157
    Library("Webkit", FRAMEWORK, <<"Webkit.h">>, <<"WKWebView", "_OBJC_CLASS_$_WKWebView">>, <<>>, FALSE),  \* line 158
    Library("Cocoa", FRAMEWORK, <<"Cocoa.h">>, <<"DebugStr">>, <<>>, FALSE),  \* line 159
    Library("Carbon", FRAMEWORK, <<"Carbon.h">>, <<"ShowWindow">>, <<>>, FALSE),  \* line 160
    Library("AppleGL", FRAMEWORK, <<"agl.h">>, <<"_aglChoosePixelFormat">>, <<>>, FALSE),  \* line 161
    Library("G3D-base", STATIC, <<"G3D-base.h", "TextInput.h">>, <<>>, <<"zlib", "freeimage", "zip", "Cocoa", "pthread", "enet", "tbb", "civetweb">> \o maybeG3DX11, TRUE),  \* line 162
    Library("G3D-gfx", STATIC, <<"G3D-gfx.h", "RenderDevice.h">>, <<>>, G3DAppDepend, TRUE),  \* line 163
    Library("G3D-app", STATIC, <<"G3D-app.h", "G3D.h", "RenderDevice.h">>, <<>>, G3DAppDepend, TRUE),  \* line 164
    Library("pthread", DYNAMIC, <<"pthread.h">>, <<>>, <<>>, FALSE),  \* line 165
    Library("math", DYNAMIC, <<>>, <<>>, <<>>, FALSE),  \* line 166
    Library("QT", DYNAMIC, <<"qobject.h">>, <<>>, <<>>, TRUE),  \* line 167
    Library("CoreVideo", FRAMEWORK, <<>>, <<>>, <<>>, FALSE),  \* line 168
    Library("QuartzCore", FRAMEWORK, <<"QuartzCore.h">>, <<>>, <<>>, FALSE),  \* line 169
    Library("IOKit", FRAMEWORK, <<"IOHIDKeys.h", "IOKitLib.h", "IOHIDLib.h">>, <<"IOMasterPort">>, <<>>, FALSE),  \* line 170
    Library("X11", DYNAMIC, <<"x11.h">>, <<"XSync", "XFlush">>, <<>>, FALSE),  \* line 171
    Library("Xrandr", DYNAMIC, <<"Xrandr.h">>, <<"XRRQueryExtension">>, <<"X11">>, FALSE),  \* line 172
    Library("Xi", DYNAMIC, <<"XInput2.h">>, <<"XIQueryVersion">>, <<"X11">>, FALSE),  \* line 173
    Library("Xcursor", DYNAMIC, <<"Xcursor.h">>, <<>>, <<"X11">>, FALSE),  \* line 174
    Library("Xxf86vm", DYNAMIC, <<>>, <<>>, <<>>, FALSE),  \* line 175
    Library("Xinerama", DYNAMIC, <<>>, <<>>, <<>>, FALSE),  \* line 176
    Library("dl", DYNAMIC, <<>>, <<>>, <<>>, TRUE),  \* line 177
    Library("ANN", STATIC, <<"ANN.h">>, <<>>, <<>>, TRUE),  \* line 178
    Library("OpenCV", STATIC, <<"cv.h">>, <<>>, <<"OpenCV-Aux", "OpenCV-Core">>, TRUE),  \* line 179
    Library("OpenCV-Aux", STATIC, <<>>, <<>>, <<"OpenCV-Core">>, TRUE),  \* line 180
    Library("OpenCV-Core", STATIC, <<>>, <<>>, <<>>, TRUE),  \* line 181
    Library("FMOD", DYNAMIC, <<"fmod.hpp", "fmod.h">>, <<>>, <<"FFMPEG-codec", "FFMPEG-util">>, TRUE),  \* line 182
    Library("mongoose", STATIC, <<"mongoose.h">>, <<>>, <<>>, TRUE),  \* line 183
    Library("civetweb", STATIC, <<"civetweb.h">>, <<>>, <<>>, TRUE),  \* line 184
    Library("qrencode", STATIC, <<"qrencode.h">>, <<"_QRcode_encodeData">>, <<>>, TRUE),  \* line 185
    Library("irrKlang", DYNAMIC, <<"irrKlang.h">>, <<"createIrrKlangDevice">>, <<>>, TRUE),  \* line 186
    Library("ply", STATIC, <<"ply.hpp">>, <<"ply::ply_parser::parse">>, <<>>, TRUE),  \* line 187
    Library("tbbmalloc", DYNAMIC, <<"tbb.h">>, <<>>, <<>>, TRUE),  \* line 188
    Library("embree", DYNAMIC, <<"embree.h">>, <<>>, <<>>, TRUE),  \* line 189
    Library("tbb", DYNAMIC, <<"tbb.h">>, <<>>, <<"tbb">>, TRUE),  \* line 190
    Library("FFMPEG-util", DYNAMIC, <<"avutil.h">>, <<"av_malloc">>, <<>>, TRUE),  \* line 191
    Library("FFMPEG-resample", DYNAMIC, <<>>, <<>>, <<>>, TRUE),  \* line 192
    Library("FFMPEG-codec", DYNAMIC, <<"avcodec.h">>, <<"avcodec_open">>, <<"zlib", "FFMPEG-resample">>, TRUE),  \* line 193
    Library("FFMPEG-format", DYNAMIC, <<"avformat.h">>, <<"av_register_all">>, <<"FFMPEG-util">>, TRUE),  \* line 194
    Library("FFMPEG-swscale", DYNAMIC, <<"swscale.h">>, <<"sws_scale">>, <<"FFMPEG-util">>, TRUE),  \* line 195
    Library("FFMPEG-filter", DYNAMIC, <<"avfiltergraph.h">>, <<"avfilter_graph_create_filter">>, <<"FFMPEG-util", "FFMPEG-swscale">>, TRUE)   \* line 196
  >>

----------------------------------------------------------------------------
(* The registry *)

\* addTrigger with the list replaced instead of extended
addTriggerOverwrite(table, key, name) ==
  IF key \in DOMAIN table
    THEN [table EXCEPT ![key] = <<name>>]
    ELSE table @@ (key :> <<name>>)

\* table[key] += [name], or table[key] = [name] for a new key
addTrigger(table, key, name) ==
  IF key \in DOMAIN table
    THEN [table EXCEPT ![key] = @ \o <<name>>]
    ELSE table @@ (key :> <<name>>)

RECURSIVE addTriggers(_, _, _)
addTriggers(table, keys, name) ==
  IF keys = <<>> THEN table
  ELSE addTriggers(addTrigger(table, Head(keys), name), Tail(keys), name)

\* defineLibrary with the test for a second definition after the updates
defineLibraryLateCheck(t, h, s, lib) ==
  [libraryTable |-> IF lib.name \in DOMAIN t THEN [t EXCEPT ![lib.name] = lib]
                    ELSE t @@ (lib.name :> lib),
   headerToLibraryTable |-> addTriggers(h, lib.headerList, lib.name),
   symbolToLibraryTable |-> addTriggers(s, lib.symbolList, lib.name),
   exitStatus |-> IF lib.name \in DOMAIN t THEN <<-1>> ELSE <<>>]

\* The three tables and the exit status after defineLibrary(lib) called on
\* tables t, h, s
defineLibrary(t, h, s, lib) ==
  IF lib.name \in DOMAIN t
    THEN [libraryTable |-> t, headerToLibraryTable |-> h,
          symbolToLibraryTable |-> s, exitStatus |-> <<-1>>]
    ELSE [libraryTable |-> t @@ (lib.name :> lib),
          headerToLibraryTable |-> addTriggers(h, lib.headerList, lib.name),
          symbolToLibraryTable |-> addTriggers(s, lib.symbolList, lib.name),
          exitStatus |-> <<>>]

\* Libraries a caller may register after the catalogue: a new library (the
\* catalogue's commented-out row), a new library sharing triggers with a
\* registered one, and a second definition of a registered name.
ExtraLibs ==
  { Library("Box2D", STATIC, <<"Box2D.h">>, <<>>, <<>>, TRUE),
    Library("zlib-ng", DYNAMIC, <<"zlib.h", "zlib-ng.h">>, <<"compress2">>, <<"zlib">>, FALSE),
    Library("zlib", STATIC, <<"zlib.h", "gzguts.h">>, <<"inflate">>, <<"Box2D">>, TRUE),
    Library("Box2D", DYNAMIC, <<"b2World.h">>, <<"compress2">>, <<>>, TRUE) }

----------------------------------------------------------------------------
(* Link order *)

curatedPairs ==
  <<
    <<"G3D-app", "G3D-gfx">>, <<"G3D-gfx", "G3D-base">>, <<"G3D-base", "Cocoa">>,
    <<"Cocoa", "SDL">>, <<"SDL", "OpenGL">>, <<"GLU", "OpenGL">>,
    <<"G3D-gfx", "glew">>, <<"G3D-app", "GLU">>, <<"G3D-base", "zlib">>,
    <<"G3D-base", "zip">>, <<"G3D-base", "freeimage">>, <<"Cocoa", "pthread">>,
    <<"G3D-base", "enet">>, <<"embree", "tbb">>, <<"Cocoa", "zlib">>,
    <<"OpenGL", "pthread">>, <<"Cocoa", "Carbon">>, <<"FFMPEG-format", "FFMPEG-codec">>,
    <<"FFMPEG-codec", "FFMPEG-util">>, <<"FFMPEG-format", "zlib">>, <<"G3D-app", "FFMPEG-format">>,
    <<"glfw", "X11">>, <<"glfw", "Xrandr">>, <<"glfw", "Xi">>,
    <<"glfw", "Xcursor">>, <<"G3D-base", "X11">>, <<"G3D-gfx", "glfw">>,
    <<"G3D-app", "assimp">>, <<"glfw", "Xxf86vm">>
  >>

\* Pairs (parent, child) of the dependsOnList entries, lines 209-211
dependsOnPairs(t) ==
  UNION {{<<parent, child>> : child \in Range(t[parent].dependsOnList)} :
           parent \in DOMAIN t}

\* The list handed to pairsToVertexEdgeGraph at line 222: the assignment of
\* line 214 replaces the list built by the loop of lines 209-211
makeLibOrderPairs(t) ==
  LET fromTable == dependsOnPairs(t)
      assigned == curatedPairs
  IN  assigned

\* topsort.pairsToVertexEdgeGraph: the vertices are the names that appear in
\* a pair, the edges are the pairs without duplicates
pairsToVertexEdgeGraph(ps) ==
  [E |-> Range(ps), V |-> {p[1] : p \in Range(ps)} \cup {p[2] : p \in Range(ps)}]

StrMin(S) == CHOOSE m \in S : \A n \in S : n = m \/ StrLess(m, n)

\* topsort.topSort: repeatedly emit the lexicographically least vertex that
\* has no parent left; no such vertex among those left is a cycle
RECURSIVE topSortFrom(_, _, _)
topSortFrom(E, rest, L) ==
  IF rest = {} THEN [ok |-> TRUE, L |-> L]
  ELSE LET ready == {v \in rest : ~\E e \in E : e[2] = v /\ e[1] \in rest}
       IN  IF ready = {} THEN [ok |-> FALSE, L |-> L]
           ELSE CHOOSE end \in
                  {topSortFrom(E, rest \ {v}, Append(L, v)) : v \in {StrMin(ready)}} : TRUE

topSort(E, V) == topSortFrom(E, V, <<>>)

\* rankTable counting from the end of L
rankTableReversed(L) ==
  [n \in Range(L) |-> Len(L) - (CHOOSE i \in 1..Len(L) : L[i] = n)]

\* rankTable with the loop starting at 1
rankTableSkipFirst(L) ==
  [n \in Range(Tail(L)) |-> (CHOOSE i \in 1..Len(L) : L[i] = n) - 1]

\* order[L[i]] = i, lines 225-227 (Python indexes from 0)
rankTable(L) == [n \in Range(L) |-> (CHOOSE i \in 1..Len(L) : L[i] = n) - 1]

\* Lines 222-229 on the list ps: ok is FALSE when topSort raises
rankPairs(ps) ==
  LET G == pairsToVertexEdgeGraph(ps)
      T == CHOOSE r \in {topSort(G.E, G.V)} : TRUE
  IN  [ok |-> T.ok, order |-> rankTable(T.L)]

\* rankPairs(curatedPairs), evaluated once
curatedRank == rankPairs(curatedPairs)

_makeLibOrder(t) ==
  LET ps == makeLibOrderPairs(t)
  IN  IF ps = curatedPairs THEN curatedRank ELSE rankPairs(ps)

\* _libSorter without the alphabetical order of two unknown names
_libSorterNoTieBreak(x, y, ord) ==
  LET hasX == x \in DOMAIN ord
      hasY == y \in DOMAIN ord
  IN  IF hasX /\ hasY THEN ord[x] - ord[y]
      ELSE IF hasX THEN 1
      ELSE IF hasY THEN -1
      ELSE 0

\* _libSorter with the known libraries first
_libSorterKnownFirst(x, y, ord) ==
  LET hasX == x \in DOMAIN ord
      hasY == y \in DOMAIN ord
  IN  IF hasX /\ hasY THEN ord[x] - ord[y]
      ELSE IF hasX THEN -1
      ELSE IF hasY THEN 1
      ELSE (IF StrLess(y, x) THEN 1 ELSE 0) - (IF StrLess(x, y) THEN 1 ELSE 0)

\* _libSorter with the ranks subtracted the other way round
_libSorterDescending(x, y, ord) ==
  LET hasX == x \in DOMAIN ord
      hasY == y \in DOMAIN ord
  IN  IF hasX /\ hasY THEN ord[y] - ord[x]
      ELSE IF hasX THEN 1
      ELSE IF hasY THEN -1
      ELSE (IF StrLess(y, x) THEN 1 ELSE 0) - (IF StrLess(x, y) THEN 1 ELSE 0)

\* _libSorter(x, y) with the global _libOrder = ord
_libSorter(x, y, ord) ==
  LET hasX == x \in DOMAIN ord
      hasY == y \in DOMAIN ord
  IN  IF hasX /\ hasY THEN ord[x] - ord[y]
      ELSE IF hasX THEN 1
      ELSE IF hasY THEN -1
      ELSE (IF StrLess(y, x) THEN 1 ELSE 0) - (IF StrLess(x, y) THEN 1 ELSE 0)

\* cmp2key(_libSorter): K.__lt__
keyLess(x, y, ord) == _libSorter(x, y, ord) < 0

\* list.sort(key=K): a stable sort that compares with __lt__ only.  Each
\* element goes before the first element of the sorted prefix it is less than.
insertSorted(s, x, ord) ==
  LET after == {i \in 1..Len(s) : keyLess(x, s[i], ord)}
      p == IF after = {} THEN Len(s) + 1 ELSE Min(after)
  IN  SubSeq(s, 1, p - 1) \o <<x>> \o SubSeq(s, p, Len(s))

RECURSIVE listSortFrom(_, _, _)
listSortFrom(done, todo, ord) ==
  IF todo = <<>> THEN done
  ELSE CHOOSE end \in
         {listSortFrom(next, Tail(todo), ord) :
            next \in {insertSorted(done, Head(todo), ord)}} : TRUE

listSort(s, ord) == listSortFrom(<<>>, s, ord)

\* The list after sortLibraries(l) on library table t
sortLibraries(l, t) == listSort(l, _makeLibOrder(t).order)

----------------------------------------------------------------------------
(* Inputs of sortLibraries *)

\* two ranked names, a registered name without rank, a name not registered
SortNames == {"Cocoa", "SDL", "curses", "Box2D"}

RECURSIVE SeqsUpTo(_, _)
SeqsUpTo(S, n) ==
  IF n = 0 THEN {<<>>}
  ELSE LET shorter == SeqsUpTo(S, n - 1)
       IN  shorter \cup {Append(s, x) : s \in {q \in shorter : Len(q) = n - 1}, x \in S}

\* The lists with the elements of s in every order
Perms(s) ==
  {[i \in 1..Len(s) |-> s[f[i]]] : f \in Permutations(1..Len(s))}

ExampleList == <<"zlib", "G3D-base", "G3D-app", "G3D-gfx">>

MixedList == <<"python", "zip", "curses", "Box2D", "civetweb">>

SortInputs == SeqsUpTo(SortNames, MaxLen) \cup Perms(ExampleList) \cup {MixedList}

----------------------------------------------------------------------------
(* The artifact locator *)

\* str(s): the characters of a file name or path
Lib == <<"l", "i", "b">>
ExtA == <<".", "a">>
ExtSo == <<".", "s", "o">>
ExtDylib == <<".", "d", "y", "l", "i", "b">>

\* utils.pathConcat
pathConcat(a, b) == a \o <<"/">> \o b

\* os.path.exists on the file system fs
exists(fs, p) == p \in fs

StartsWith(p, pre) == Len(p) >= Len(pre) /\ SubSeq(p, 1, Len(pre)) = pre

EndsWith(p, suf) ==
  Len(p) >= Len(suf) /\ SubSeq(p, Len(p) - Len(suf) + 1, Len(p)) = suf

\* p matches the pattern pre + '*' + suf; '*' matches any characters but '/'
matches(p, pre, suf) ==
  /\ StartsWith(p, pre)
  /\ EndsWith(p, suf)
  /\ Len(p) >= Len(pre) + Len(suf)
  /\ \A k \in (Len(pre) + 1)..(Len(p) - Len(suf)) : p[k] # "/"

\* glob.glob(pre + '*' + suf): the files that match, in the order of the
\* directory listing
glob(listing, pre, suf) == SelectSeq(listing, LAMBDA p : matches(p, pre, suf))

\* file.rfind('-', 0, -2) as a position from 1, 0 when there is none
rfindDash(file) ==
  LET at == {k \in 1..(Len(file) - 2) : file[k] = "-"}
  IN  IF at = {} THEN 0 ELSE CHOOSE k \in at : \A m \in at : m <= k

Digits == {"0", "1", "2", "3", "4", "5", "6", "7", "8", "9"}

DigitValue(c) == CHOOSE d \in 0..9 : <<"0", "1", "2", "3", "4", "5", "6", "7", "8", "9">>[d + 1] = c

RECURSIVE DigitsValue(_)
DigitsValue(ds) ==
  IF ds = <<>> THEN 0
  ELSE 10 * DigitsValue(SubSeq(ds, 1, Len(ds) - 1)) + DigitValue(ds[Len(ds)])

RECURSIVE Pow10(_)
Pow10(n) == IF n = 0 THEN 1 ELSE 10 * Pow10(n - 1)

\* float(v) for v of digits and dots: the number num / den, or ok = FALSE
\* for ValueError.  v is a number when it is digits with at most one dot and
\* at least one digit.
float(v) ==
  LET dots == {k \in 1..Len(v) : v[k] = "."}
      wellFormed == /\ \A k \in 1..Len(v) : v[k] \in Digits \cup {"."}
                    /\ Cardinality(dots) <= 1
                    /\ \E k \in 1..Len(v) : v[k] \in Digits
      ds == SelectSeq(v, LAMBDA c : c \in Digits)
      frac == IF dots = {} THEN 0 ELSE Len(v) - (CHOOSE k \in dots : TRUE)
  IN  IF wellFormed THEN [ok |-> TRUE, num |-> DigitsValue(ds), den |-> Pow10(frac)]
      ELSE [ok |-> FALSE, num |-> 0, den |-> 1]

\* a > b for two numbers num / den
Greater(a, b) == a.num * b.den > b.num * a.den

\* The loop of lines 320-333 over the list fs, from bestVersion and bestFile
\* in best
RECURSIVE latestVersion(_, _)
latestVersion(fs, best) ==
  IF fs = <<>> THEN best
  ELSE LET file == Head(fs)
           i == rfindDash(file)
           version == float(SubSeq(file, i + 1, Len(file) - 3))
           better == i >= 1 /\ version.ok /\ Greater(version, best.bestVersion)
       IN  CHOOSE end \in
             {latestVersion(Tail(fs), next) :
                next \in {IF better THEN [bestVersion |-> version, bestFile |-> <<file>>]
                          ELSE best}} : TRUE

\* The loop of lines 314-333 over the directories paths
RECURSIVE versionedSearch(_, _, _, _, _)
versionedSearch(listing, paths, wildPre, ext, best) ==
  IF paths = <<>> THEN best
  ELSE LET found == glob(listing, pathConcat(Head(paths), wildPre), ext)
           \* wildlfile2 is built from ext, line 310: the same pattern again
           found2 == glob(listing, pathConcat(Head(paths), wildPre), ext)
       IN  CHOOSE end \in
             {versionedSearch(listing, Tail(paths), wildPre, ext, next) :
                next \in {latestVersion(found \o found2, best)}} : TRUE

\* exactSearch that looks for lfile in every directory before lfile2
exactSearchPrimaryFirst(fs, paths, lfile, lfile2) ==
  LET first == {k \in 1..Len(paths) : exists(fs, pathConcat(paths[k], lfile))}
      second == {k \in 1..Len(paths) :
                   lfile2 # None /\ exists(fs, pathConcat(paths[k], lfile2[1]))}
  IN  IF first # {} THEN <<pathConcat(paths[Min(first)], lfile)>>
      ELSE IF second # {} THEN <<pathConcat(paths[Min(second)], lfile2[1])>>
      ELSE <<>>

\* The loop of lines 300-304: <<path>> of the first exact match, <<>> if none
RECURSIVE exactSearch(_, _, _, _)
exactSearch(fs, paths, lfile, lfile2) ==
  IF paths = <<>> THEN <<>>
  ELSE IF exists(fs, pathConcat(Head(paths), lfile))
         THEN <<pathConcat(Head(paths), lfile)>>
  ELSE IF lfile2 # None /\ exists(fs, pathConcat(Head(paths), lfile2[1]))
         THEN <<pathConcat(Head(paths), lfile2[1])>>
  ELSE exactSearch(fs, Tail(paths), lfile, lfile2)

\* ext and ext2 of lines 286-293; ext2 is <<>> for None, <<e>> otherwise
primaryExt(type, darwin) ==
  IF type = DYNAMIC THEN (IF darwin THEN ExtDylib ELSE ExtSo) ELSE ExtA

fallbackExt(type, darwin) ==
  IF type = DYNAMIC /\ darwin THEN <<ExtSo>> ELSE None

\* findLibrary(_lfile, type, libraryPaths) on the file system fs, whose
\* directories list their files in the order of listing
findLibrary(fs, listing, darwin, _lfile, type, libraryPaths) ==
  LET ext == primaryExt(type, darwin)
      ext2 == fallbackExt(type, darwin)
      lfile == Lib \o _lfile \o ext
      lfile2 == IF ext2 # None THEN <<Lib \o _lfile \o ext2[1]>> ELSE None
      exact == exactSearch(fs, libraryPaths, lfile, lfile2)
      best == versionedSearch(listing, libraryPaths, Lib \o _lfile \o <<"-">>, ext,
                              [bestVersion |-> [ok |-> TRUE, num |-> 0, den |-> 1],
                               bestFile |-> None])
  IN  IF exact # <<>> THEN exact[1]
      ELSE IF best.bestFile # None THEN best.bestFile[1]
      ELSE lfile

----------------------------------------------------------------------------
(* Inputs of findLibrary *)

Foo == <<"f", "o", "o">>

Dirs == {<<"/", "a">>, <<"/", "b">>}

\* Search paths: the lists of distinct directories
SearchPaths ==
  {<<>>} \cup {<<d>> : d \in Dirs}
         \cup UNION {{<<d, e>> : e \in Dirs \ {d}} : d \in Dirs}

FileNames ==
  { Lib \o Foo \o ExtA,
    Lib \o Foo \o ExtSo,
    Lib \o Foo \o ExtDylib,
    Lib \o Foo \o <<"-", "1", ".", "0">> \o ExtSo,
    Lib \o Foo \o <<"-", "2", ".", "3">> \o ExtSo,
    Lib \o Foo \o <<"-", "1", ".", "0">> \o ExtDylib,
    Lib \o Foo \o <<"-", "2", ".", "3">> \o ExtDylib,
    Lib \o Foo \o <<"-", "1", ".", "5">> \o ExtA,
    Lib \o Foo \o <<"-", "1", ".", "x">> \o ExtA,
    Lib \o Foo \o <<"-", "x">> \o ExtSo }

AllFiles == {pathConcat(d, f) : d \in Dirs, f \in FileNames}

\* The lists with the elements of the set S in every order
RECURSIVE Listings(_)
Listings(S) ==
  IF S = {} THEN {<<>>}
  ELSE UNION {{<<x>> \o l : l \in Listings(S \ {x})} : x \in S}

----------------------------------------------------------------------------
(* Actions *)

\* The state after construction: the module globals of lines 74-80 and 231
InitCommon ==
  /\ isOSX \in BOOLEAN
  /\ isARM \in BOOLEAN
  /\ exitStatus = <<>>
  /\ _libOrder = None
  /\ liblist = <<>>
  /\ pairs = <<>>
  /\ order = <<>>
  /\ ret = <<>>
  /\ call = [op |-> "none"]

Init ==
  /\ InitCommon
  /\ loadPos = 0
  /\ libraryTable = <<>>
  /\ headerToLibraryTable = <<>>
  /\ symbolToLibraryTable = <<>>
  /\ files = {}

Register(lib) ==
  LET r == defineLibrary(libraryTable, headerToLibraryTable, symbolToLibraryTable, lib)
  IN  /\ libraryTable' = r.libraryTable
      /\ headerToLibraryTable' = r.headerToLibraryTable
      /\ symbolToLibraryTable' = r.symbolToLibraryTable
      /\ exitStatus' = r.exitStatus
      /\ call' = [op |-> "defineLibrary", lib |-> lib]

\* One iteration of the loop of lines 140-198
LoadCatalogue ==
  /\ exitStatus = <<>>
  /\ loadPos < Len(Catalogue)
  /\ Register(Catalogue[loadPos + 1])
  /\ loadPos' = loadPos + 1
  /\ UNCHANGED <<isOSX, isARM, _libOrder, liblist, pairs, order, files, ret>>

\* defineLibrary(lib) called once the module is loaded
DefineLibrary(lib) ==
  /\ exitStatus = <<>>
  /\ loadPos = Len(Catalogue)
  /\ Register(lib)
  /\ UNCHANGED <<isOSX, isARM, loadPos, _libOrder, liblist, pairs, order, files, ret>>

\* sortLibraries without the reset of line 277
SortLibrariesKeepOrder(l) ==
  /\ exitStatus = <<>>
  /\ loadPos = Len(Catalogue)
  /\ \E m \in {_makeLibOrder(libraryTable)} :
         /\ pairs' = makeLibOrderPairs(libraryTable)
         /\ order' = IF m.ok THEN m.order ELSE None
         /\ liblist' = IF m.ok THEN listSort(l, m.order) ELSE l
         /\ exitStatus' = IF m.ok THEN <<>> ELSE <<1>>
         /\ _libOrder' = m.order
  /\ call' = [op |-> "sortLibraries", liblist |-> l]
  /\ UNCHANGED <<isOSX, isARM, loadPos, registry, files, ret>>

\* sortLibraries(l) called once the module is loaded
SortLibraries(l) ==
  /\ exitStatus = <<>>
  /\ loadPos = Len(Catalogue)
  /\ \E m \in {_makeLibOrder(libraryTable)} :
         /\ pairs' = makeLibOrderPairs(libraryTable)
         /\ order' = IF m.ok THEN m.order ELSE None
         /\ liblist' = IF m.ok THEN listSort(l, m.order) ELSE l
         /\ exitStatus' = IF m.ok THEN <<>> ELSE <<1>>
  /\ _libOrder' = None
  /\ call' = [op |-> "sortLibraries", liblist |-> l]
  /\ UNCHANGED <<isOSX, isARM, loadPos, registry, files, ret>>

Next ==
  \/ LoadCatalogue
  \/ \E lib \in ExtraLibs : DefineLibrary(lib)

Spec == Init /\ [][Next]_vars

\* The tables once the loop of lines 140-198 has registered rows n.. on top
\* of the tables r
RECURSIVE loadFrom(_, _)
loadFrom(r, n) ==
  IF n > Len(Catalogue) \/ r.exitStatus # <<>> THEN r
  ELSE CHOOSE end \in
         {loadFrom(next, n + 1) :
            next \in {defineLibrary(r.libraryTable, r.headerToLibraryTable,
                                    r.symbolToLibraryTable, Catalogue[n])}} : TRUE

loaded ==
  loadFrom([libraryTable |-> <<>>, headerToLibraryTable |-> <<>>,
            symbolToLibraryTable |-> <<>>, exitStatus |-> <<>>], 1)

\* The state once the module is imported
InitSort ==
  /\ InitCommon
  /\ loadPos = Len(Catalogue)
  /\ libraryTable = loaded.libraryTable
  /\ headerToLibraryTable = loaded.headerToLibraryTable
  /\ symbolToLibraryTable = loaded.symbolToLibraryTable
  /\ files = {}

NextSort == \E l \in SortInputs : SortLibraries(l)

SpecSort == InitSort /\ [][NextSort]_vars

\* The module imported on a machine whose directories hold some library files
InitFind ==
  /\ InitCommon
  /\ isARM = FALSE
  /\ loadPos = Len(Catalogue)
  /\ libraryTable = loaded.libraryTable
  /\ headerToLibraryTable = loaded.headerToLibraryTable
  /\ symbolToLibraryTable = loaded.symbolToLibraryTable
  /\ files \in {fs \in SUBSET AllFiles : Cardinality(fs) <= MaxFiles}

\* The files that the calls of glob.glob in findLibrary(_lfile, type,
\* libraryPaths) can return
globbed(_lfile, type, libraryPaths) ==
  {p \in files :
     \E k \in 1..Len(libraryPaths) :
       matches(p, pathConcat(libraryPaths[k], Lib \o _lfile \o <<"-">>),
               primaryExt(type, isOSX))}

\* findLibrary(_lfile, type, libraryPaths), glob.glob returning the files in
\* the order of listing
FindLibrary(_lfile, type, libraryPaths, listing) ==
  /\ exitStatus = <<>>
  /\ loadPos = Len(Catalogue)
  /\ listing \in Listings(globbed(_lfile, type, libraryPaths))
  /\ ret' = findLibrary(files, listing, isOSX, _lfile, type, libraryPaths)
  /\ call' = [op |-> "findLibrary", _lfile |-> _lfile, type |-> type,
               libraryPaths |-> libraryPaths]
  /\ UNCHANGED <<isOSX, isARM, loadPos, registry, exitStatus, _libOrder, liblist,
                 pairs, order, files>>

NextFind ==
  \E type \in {STATIC, DYNAMIC}, libraryPaths \in SearchPaths :
    \E listing \in Listings(globbed(Foo, type, libraryPaths)) :
      FindLibrary(Foo, type, libraryPaths, listing)

SpecFind == InitFind /\ [][NextFind]_vars


----------------------------------------------------------------------------
(* Properties of the link order *)

sorted == call.op = "sortLibraries"

Endpoints(ps) == {p[1] : p \in Range(ps)} \cup {p[2] : p \in Range(ps)}

Positions(l, n) == {i \in 1..Len(l) : l[i] = n}

\* C1: in the rank table built by _makeLibOrder, every edge (parent, child)
\* of the graph that is ranked has rank(parent) < rank(child).
C1_EdgesAscend ==
  sorted =>
    \A e \in Range(pairs) :
      /\ e[1] \in DOMAIN order
      /\ e[2] \in DOMAIN order
      /\ order[e[1]] < order[e[2]]

C1_Witness ==
  /\ sorted
  /\ <<"G3D-base", "zlib">> \in Range(pairs)
  /\ order["G3D-base"] < order["zlib"]

\* C2: for every registered library A and every name B # A of its
\* dependsOnList, when both are in the list handed to sortLibraries, A comes
\* before B in the sorted list.
C2_DependentsFirst ==
  sorted =>
    \A A \in DOMAIN libraryTable :
      \A B \in Range(libraryTable[A].dependsOnList) \ {A} :
        \A i \in Positions(liblist, A), j \in Positions(liblist, B) : i < j

\* C3: sortLibraries gives the same list for every permutation of its input,
\* and leaves a sorted list as it is.
C3_PermutationInvariant ==
  sorted =>
    /\ \A p \in Perms(call.liblist) : sortLibraries(p, libraryTable) = liblist
    /\ sortLibraries(liblist, libraryTable) = liblist

C3_Witness ==
  /\ sorted
  /\ liblist # call.liblist
  /\ Cardinality(Range(liblist)) < Len(liblist)
  /\ \E n \in Range(liblist) : n \in DOMAIN order
  /\ \E n \in Range(liblist) : n \notin DOMAIN order

\* C4: in the sorted list every name without rank comes before every name
\* with a rank, and the names without rank are in lexicographic order.
C4_UnrankedFirst ==
  sorted =>
    \A i, j \in 1..Len(liblist) :
      (i < j /\ liblist[j] \notin DOMAIN order) =>
         /\ liblist[i] \notin DOMAIN order
         /\ ~StrLess(liblist[j], liblist[i])

C4_Witness ==
  /\ sorted
  /\ call.liblist = <<"Cocoa", "curses", "Box2D">>
  /\ liblist = <<"Box2D", "curses", "Cocoa">>

\* C5: the names with a rank come out in ascending rank; the list
\* [zlib, G3D-base, G3D-app, G3D-gfx], in any order, comes out as
\* [G3D-app, G3D-gfx, G3D-base, zlib].
C5_RankedAscend ==
  sorted =>
    /\ \A i, j \in 1..Len(liblist) :
         (i < j /\ liblist[i] \in DOMAIN order /\ liblist[j] \in DOMAIN order)
           => order[liblist[i]] <= order[liblist[j]]
    /\ call.liblist \in Perms(ExampleList)
         => liblist = <<"G3D-app", "G3D-gfx", "G3D-base", "zlib">>

C5_Witness ==
  /\ sorted
  /\ call.liblist = ExampleList
  /\ liblist = <<"G3D-app", "G3D-gfx", "G3D-base", "zlib">>

\* C6: the edges handed to the topological sort are those of both sources:
\* every (parent, child) with child in libraryTable[parent].dependsOnList
\* and every pair of the curated list.
C6_EdgesOfBothSources ==
  sorted =>
    (dependsOnPairs(libraryTable) \cup Range(curatedPairs)) \subseteq Range(pairs)

\* C7 as stated: every registered library has an entry in the rank table.
C7_RegisteredRanked ==
  sorted => DOMAIN libraryTable \subseteq DOMAIN order

\* C7, amended: the rank table has an entry for exactly the names that are
\* an endpoint of a pair handed to the topological sort; a registered
\* library that is in no such pair has none.
C7_RankedAreEndpoints ==
  sorted =>
    /\ DOMAIN order = Endpoints(pairs)
    /\ \A n \in DOMAIN libraryTable \ Endpoints(pairs) : n \notin DOMAIN order

C7_Witness ==
  /\ sorted
  /\ "curses" \in DOMAIN libraryTable
  /\ "curses" \notin DOMAIN order
  /\ "zlib" \in DOMAIN libraryTable
  /\ "zlib" \in DOMAIN order

----------------------------------------------------------------------------
(* Properties of the registry *)

\* C8: defineLibrary with a name that is already registered ends in the fatal
\* error and leaves the three tables as they were.
C8_DuplicateRejected ==
  [][(/\ call'.op = "defineLibrary"
      /\ call'.lib.name \in DOMAIN libraryTable)
       => (exitStatus' = <<-1>> /\ UNCHANGED registry)]_vars

C8_Witness ==
  /\ call.op = "defineLibrary"
  /\ exitStatus = <<-1>>
  /\ call.lib.name = "zlib"
  /\ libraryTable["zlib"] # call.lib
  /\ "gzguts.h" \notin DOMAIN headerToLibraryTable
  /\ "inflate" \notin DOMAIN symbolToLibraryTable
  /\ headerToLibraryTable["zlib.h"] = <<"zlib">>

declaringHeader(h) ==
  {n \in DOMAIN libraryTable : h \in Range(libraryTable[n].headerList)}

declaringSymbol(y) ==
  {n \in DOMAIN libraryTable : y \in Range(libraryTable[n].symbolList)}

\* C9: headerToLibraryTable[h] holds exactly the registered libraries whose
\* headerList contains h, symbolToLibraryTable[s] those whose symbolList
\* contains s, and a header or symbol of no registered library has no entry.
C9_IndexExact ==
  /\ DOMAIN headerToLibraryTable =
       UNION {Range(libraryTable[n].headerList) : n \in DOMAIN libraryTable}
  /\ \A h \in DOMAIN headerToLibraryTable :
       Range(headerToLibraryTable[h]) = declaringHeader(h)
  /\ DOMAIN symbolToLibraryTable =
       UNION {Range(libraryTable[n].symbolList) : n \in DOMAIN libraryTable}
  /\ \A y \in DOMAIN symbolToLibraryTable :
       Range(symbolToLibraryTable[y]) = declaringSymbol(y)

C9_Witness ==
  /\ call.op = "defineLibrary"
  /\ call.lib.name = "zlib-ng"
  /\ headerToLibraryTable["zlib.h"] = <<"zlib", "zlib-ng">>
  /\ headerToLibraryTable["RenderDevice.h"] = <<"G3D-gfx", "G3D-app">>
  /\ symbolToLibraryTable["compress2"] = <<"zlib", "zlib-ng">>
  /\ "Box2D.h" \notin DOMAIN headerToLibraryTable

----------------------------------------------------------------------------
(* Properties of the artifact locator *)

found == call.op = "findLibrary"

\* lib<name><ext> in the k-th directory of the call
exactIn(k, ext) == pathConcat(call.libraryPaths[k], Lib \o call._lfile \o ext)

\* C10: with an exact match on the search path, findLibrary returns the match
\* of the earliest directory that holds lib<name><primary ext> or
\* lib<name><fallback ext>, the primary one if that directory holds both,
\* whatever versioned files there are.
C10_ExactMatchFirst ==
  found =>
    LET primary == IF call.type = DYNAMIC
                     THEN (IF isOSX THEN ExtDylib ELSE ExtSo)
                     ELSE ExtA
        hasFallback == call.type = DYNAMIC /\ isOSX
        holds(k) == \/ exactIn(k, primary) \in files
                    \/ hasFallback /\ exactIn(k, ExtSo) \in files
        hits == {k \in 1..Len(call.libraryPaths) : holds(k)}
    IN  hits # {} =>
          ret = IF exactIn(Min(hits), primary) \in files
                  THEN exactIn(Min(hits), primary)
                  ELSE exactIn(Min(hits), ExtSo)

C10_Witness ==
  /\ found
  /\ isOSX
  /\ call.type = DYNAMIC
  /\ call.libraryPaths = <<<<"/", "a">>, <<"/", "b">>>>
  /\ files = {pathConcat(<<"/", "a">>, Lib \o Foo \o ExtSo),
              pathConcat(<<"/", "b">>, Lib \o Foo \o ExtDylib)}
  /\ ret = pathConcat(<<"/", "a">>, Lib \o Foo \o ExtSo)

\* The primary extension of the call, and whether it has a fallback
primaryOfCall ==
  IF call.type = DYNAMIC THEN (IF isOSX THEN ExtDylib ELSE ExtSo) ELSE ExtA

fallbackOfCall == call.type = DYNAMIC /\ isOSX

\* No directory of the call holds lib<name><primary ext> or, where there is
\* a fallback, lib<name><fallback ext>
noExactMatch ==
  \A k \in 1..Len(call.libraryPaths) :
    /\ exactIn(k, primaryOfCall) \notin files
    /\ fallbackOfCall => exactIn(k, ExtSo) \notin files

\* <version> of the file p = <dir>/lib<name>-<version><ext>
versionOf(p, dir, ext) ==
  float(SubSeq(p, Len(pathConcat(dir, Lib \o call._lfile \o <<"-">>)) + 1,
               Len(p) - Len(ext)))

\* The files lib<name>-<version><ext> of the directories of the call whose
\* <version> parses
versioned(ext) ==
  {p \in files :
     \E k \in 1..Len(call.libraryPaths) :
       /\ matches(p, pathConcat(call.libraryPaths[k], Lib \o call._lfile \o <<"-">>), ext)
       /\ versionOf(p, call.libraryPaths[k], ext).ok}

\* The version of a file of versioned(ext)
versionIn(p, ext) ==
  LET k == CHOOSE k \in 1..Len(call.libraryPaths) :
             matches(p, pathConcat(call.libraryPaths[k], Lib \o call._lfile \o <<"-">>), ext)
  IN  versionOf(p, call.libraryPaths[k], ext)

\* C11: without an exact match, findLibrary returns the file
\* lib<name>-<version><ext> of the search directories whose <version> is the
\* highest number, for each of the extensions .a, .so and .dylib; files whose
\* version does not parse are skipped.
C11_HighestVersion ==
  (found /\ noExactMatch /\ versioned(primaryOfCall) # {}) =>
     /\ ret \in versioned(primaryOfCall)
     /\ \A p \in versioned(primaryOfCall) :
          ~Greater(versionIn(p, primaryOfCall), versionIn(ret, primaryOfCall))

\* The files lib<name>-<anything><ext> of the directories of the call
wildcard(ext) ==
  {p \in files :
     \E k \in 1..Len(call.libraryPaths) :
       matches(p, pathConcat(call.libraryPaths[k], Lib \o call._lfile \o <<"-">>), ext)}

\* C12: the versioned search also takes the files of the fallback
\* extension: DYNAMIC on a platform with primary .dylib and fallback .so,
\* with libfoo-<version>.so the only candidate, returns that file.
C12_FallbackVersioned ==
  (/\ found
   /\ fallbackOfCall
   /\ noExactMatch
   /\ wildcard(ExtDylib) = {}
   /\ Cardinality(versioned(ExtSo)) = 1) => ret \in versioned(ExtSo)

\* C13: with no exact match and no versioned file whose version parses in
\* any directory of the call (an empty search path included), findLibrary
\* returns lib<name><primary ext> without a directory.
C13_BareStem ==
  (/\ found
   /\ noExactMatch
   /\ versioned(primaryOfCall) = {}
   /\ fallbackOfCall => versioned(ExtSo) = {})
     => ret = Lib \o call._lfile \o primaryOfCall

----------------------------------------------------------------------------
(* Properties of the link order, continued *)

\* The edges of the catalogue: the dependsOnList pairs and the curated pairs
catalogueEdges == dependsOnPairs(libraryTable) \cup Range(curatedPairs)

\* The edges E hold a cycle: the topological sort of their graph fails
cyclic(E) ==
  ~topSort(E, {e[1] : e \in E} \cup {e[2] : e \in E}).ok

\* C14: when the edges built from the catalogue hold a cycle (a library in
\* its own dependsOnList included), building the rank table fails and no
\* rank table is produced.
C14_CycleFails ==
  (sorted /\ cyclic(catalogueEdges)) => (exitStatus # <<>> /\ DOMAIN order = {})

----------------------------------------------------------------------------
(* Properties of the Library records *)

\* C15: a Library constructed with type STATIC has deploy False whatever
\* deploy argument it was given, and every STATIC record of libraryTable has
\* deploy False.
C15_StaticNotDeployed ==
  /\ \A n \in DOMAIN libraryTable :
       libraryTable[n].type = STATIC => libraryTable[n].deploy = FALSE
  /\ (call.op = "defineLibrary" /\ call.lib.type = STATIC) => call.lib.deploy = FALSE
  /\ \A d \in BOOLEAN :
       Library("Box2D", STATIC, <<"Box2D.h">>, <<>>, <<>>, d).deploy = FALSE

C15_Witness ==
  /\ call.op = "defineLibrary"
  /\ call.lib.name = "Box2D"
  /\ "Box2D" \in DOMAIN libraryTable
  /\ libraryTable["Box2D"].type = STATIC
  /\ libraryTable["Box2D"].deploy = FALSE
  /\ libraryTable["G3D-base"].type = STATIC
  /\ libraryTable["G3D-base"].deploy = FALSE
  /\ libraryTable["SDL"].deploy = TRUE

----------------------------------------------------------------------------
(* Properties of sortLibraries as an operation *)

\* l and m hold the same names, each as often
sameNames(l, m) ==
  \A n \in Range(l) \cup Range(m) :
    Cardinality(Positions(l, n)) = Cardinality(Positions(m, n))

\* C16: a call of sortLibraries leaves the three tables as they were, leaves
\* _libOrder None, returns the names of its argument with their
\* multiplicities, and ranks with the same table as the call before it.
C16_SortKeepsNoState ==
  [][call'.op = "sortLibraries" =>
       /\ UNCHANGED registry
       /\ DOMAIN _libOrder' = {}
       /\ sameNames(liblist', call'.liblist)
       /\ sorted => order' = order]_vars

C16_Witness ==
  /\ sorted
  /\ _libOrder = None
  /\ libraryTable = loaded.libraryTable
  /\ call.liblist = <<"SDL", "curses", "SDL">>
  /\ liblist = <<"curses", "SDL", "SDL">>

====
